---- MODULE Spec2Model ----
(***************************************************************************)
(* Model of scripts/json_preview_script.py: the report loop of main, the   *)
(* preview reader preview_large_json and the three-tier structure sniffer  *)
(* analyze_json_structure.                                                 *)
(*                                                                         *)
(* A file is a sequence of bytes.  A byte is a one-character string (an    *)
(* ASCII character), InvalidByte (0xFF, which is never valid UTF-8), or    *)
(* one of the two bytes LeadByte, ContinuationByte of the UTF-8 encoding   *)
(* of U+00E9.  Text is a sequence of characters: one-character strings     *)
(* and EAcute (U+00E9).                                                    *)
(***************************************************************************)
EXTENDS Integers, Sequences, FiniteSets

VARIABLES
    json_files,      \* main: the enumerated files; json_files[p] is the content of path p
    size,            \* main: args.size, the preview budget
    pc,              \* position in main / preview_large_json / analyze_json_structure
    file_path,       \* main: index of the file of the current iteration (0 before the first)
    out_f,           \* main: the report blocks written so far
    file_size,       \* preview_large_json: os.path.getsize result
    preview_data,    \* preview_large_json: f.read(max_bytes)
    preview_info,    \* main: the dictionary returned by preview_large_json
    structure_info,  \* the description returned by analyze_json_structure
    e,               \* analyze_json_structure: the exception bound by 'except Exception as e'
    keys,            \* analyze_json_structure: re.findall result / list(first_obj.keys())[:max_items]
    unique_keys,     \* analyze_json_structure: the list built by the loop of lines 60-62
    key_pos,         \* analyze_json_structure: number of keys the loop of line 60 has consumed
    tiers,           \* history of the current probe: the tiers entered (0: preview_large_json
                     \* itself, on a failure) and the exception each raised, NoError if none
    uncaught,        \* the exception that left preview_large_json uncaught, NoError if none
    size_in_bytes,   \* format_file_size: the argument of the call
    formatted,       \* format_file_size: the value the call returned, None before it returns
    rel_paths,       \* main: rel_paths[p] is the name line 158 computes for path p
    faults,          \* the environment of the run: when the report and stdout begin to fail
    main_raised      \* the exception main ended with, NoError if none

vars == <<json_files, size, pc, file_path, out_f, file_size, preview_data, preview_info,
          structure_info, e, keys, unique_keys, key_pos, tiers, uncaught,
          size_in_bytes, formatted, rel_paths, faults, main_raised>>

(***************************************************************************)
(* Program constants                                                       *)
(***************************************************************************)
max_items == 5

StartContentChars == 1024

KeyWindowChars == 1000

Tier2Chars == 10240

DefaultSize == 10240

(***************************************************************************)
(* Bounds of the model                                                     *)
(***************************************************************************)
MaxFiles == 2

MaxBudget == 2

MaxLen == 3

MaxKeys == 6

MaxDigit == 2

(***************************************************************************)
(* String literals of the script, as text                                  *)
(***************************************************************************)
ErrorReadingFile ==
    <<"E", "r", "r", "o", "r", " ", "r", "e", "a", "d", "i", "n", "g", " ", "f", "i", "l", "e", ":", " ">>

StructureError ==
    <<"E", "r", "r", "o", "r">>

ObjectWithKeys ==
    <<"J", "S", "O", "N", " ", "o", "b", "j", "e", "c", "t", " ", "w", "i", "t", "h", " ", "k", "e", "y", "s", " ", "i", "n", "c", "l", "u", "d", "i", "n", "g", ":", " ">>

ObjectDictionary ==
    <<"J", "S", "O", "N", " ", "o", "b", "j", "e", "c", "t", " ", "(", "d", "i", "c", "t", "i", "o", "n", "a", "r", "y", ")">>

ArrayList ==
    <<"J", "S", "O", "N", " ", "a", "r", "r", "a", "y", " ", "(", "l", "i", "s", "t", ")">>

UnknownStructure ==
    <<"U", "n", "k", "n", "o", "w", "n", " ", "J", "S", "O", "N", " ", "s", "t", "r", "u", "c", "t", "u", "r", "e">>

DetailsNotParsed ==
    <<"J", "S", "O", "N", " ", "s", "t", "r", "u", "c", "t", "u", "r", "e", " ", "d", "e", "t", "e", "c", "t", "e", "d", ",", " ", "b", "u", "t", " ", "d", "e", "t", "a", "i", "l", "s", " ", "c", "o", "u", "l", "d", " ", "n", "o", "t", " ", "b", "e", " ", "p", "a", "r", "s", "e", "d">>

ObjectWithNaN ==
    <<"J", "S", "O", "N", " ", "o", "b", "j", "e", "c", "t", " ", "(", "d", "i", "c", "t", "i", "o", "n", "a", "r", "y", ")", " ", "w", "i", "t", "h", " ", "N", "a", "N", " ", "v", "a", "l", "u", "e", "s">>

ArrayWithNaN ==
    <<"J", "S", "O", "N", " ", "a", "r", "r", "a", "y", " ", "(", "l", "i", "s", "t", ")", " ", "w", "i", "t", "h", " ", "N", "a", "N", " ", "v", "a", "l", "u", "e", "s">>

UnknownWithNaN ==
    <<"U", "n", "k", "n", "o", "w", "n", " ", "J", "S", "O", "N", " ", "s", "t", "r", "u", "c", "t", "u", "r", "e", " ", "w", "i", "t", "h", " ", "p", "o", "s", "s", "i", "b", "l", "e", " ", "N", "a", "N", " ", "v", "a", "l", "u", "e", "s">>

CouldNotAnalyze ==
    <<"C", "o", "u", "l", "d", " ", "n", "o", "t", " ", "a", "n", "a", "l", "y", "z", "e", " ", "s", "t", "r", "u", "c", "t", "u", "r", "e", ":", " ">>

KeySeparator ==
    <<",", " ">>

NaNToken ==
    <<"N", "a", "N">>

NullToken ==
    <<"n", "u", "l", "l">>

(***************************************************************************)
(* Bytes, characters and the str / file operations the script uses         *)
(***************************************************************************)
InvalidByte == "xFF"

\* 0xC3 0xA9 is the UTF-8 encoding of U+00E9; each of the two bytes alone is
\* not valid UTF-8
LeadByte == "xC3"

ContinuationByte == "xA9"

EAcute == "u00E9"

CR == "\r"

LF == "\n"

\* the characters str.strip, \s and the JSON decoder skip, among those the
\* files of the model are made of
Whitespace == {" ", LF, CR}

\* the characters a JSON string must not hold unescaped, among the same
ControlChars == {LF, CR}

Min(S) == CHOOSE x \in S : \A y \in S : x <= y

Max(S) == CHOOSE x \in S : \A y \in S : y <= x

\* the positions 1, 2, ... of s
Positions(s) == [i \in 1..Len(s) |-> i]

\* The character the decoder makes at byte i, as a text of length 0 or 1: a
\* lead byte with its continuation byte is U+00E9; an invalid byte, a lead
\* byte without continuation and a continuation byte (after a lead byte it
\* is used up, elsewhere it is undecodable) give nothing; any other byte is
\* its character.
DecodedAt(bytes, i) ==
    IF bytes[i] = LeadByte /\ i < Len(bytes) /\ bytes[i + 1] = ContinuationByte THEN <<EAcute>>
    ELSE IF bytes[i] \in {InvalidByte, LeadByte, ContinuationByte} THEN <<>>
    ELSE <<bytes[i]>>

\* bytes.decode('utf-8', errors='ignore'): undecodable bytes are dropped.
Decode(bytes) ==
    LET made == SelectSeq(Positions(bytes), LAMBDA i : DecodedAt(bytes, i) # <<>>)
    IN  [k \in 1..Len(made) |-> DecodedAt(bytes, made[k])[1]]

\* The newline translation of a file opened in text mode with newline=None:
\* '\r\n' and '\r' become '\n'.
TranslateNewlines(text) ==
    LET kept == SelectSeq(Positions(text),
                          LAMBDA i : ~(text[i] = LF /\ i > 1 /\ text[i - 1] = CR))
    IN  [k \in 1..Len(kept) |-> IF text[kept[k]] = CR THEN LF ELSE text[kept[k]]]

\* f.read() of open(..., 'r', encoding='utf-8', errors='ignore'): the bytes
\* decoded, then the newlines translated
DecodeText(bytes) == TranslateNewlines(Decode(bytes))

\* s[:n] for n >= 0
Slice(s, n) == SubSeq(s, 1, IF n < Len(s) THEN n ELSE Len(s))

\* f.read(n) on a text file opened at position 0: n characters, everything if n < 0.
Read(bytes, n) == IF n < 0 THEN DecodeText(bytes) ELSE Slice(DecodeText(bytes), n)

\* f.read(n) on a file opened 'rb'.
ReadBytes(bytes, n) == Slice(bytes, n)

\* str.strip()
Strip(s) ==
    LET solid == {i \in 1..Len(s) : s[i] \notin Whitespace}
    IN  IF solid = {} THEN <<>> ELSE SubSeq(s, Min(solid), Max(solid))

\* str.startswith(c) for a one-character c
StartsWith(s, c) == Len(s) > 0 /\ s[1] = c

\* str.replace('NaN', 'null'): left to right, occurrences do not overlap.
RECURSIVE ReplaceFrom(_, _)
ReplaceFrom(s, pos) ==
    LET occ == {p \in pos..(Len(s) - 2) : SubSeq(s, p, p + 2) = NaNToken}
    IN  IF occ = {} THEN SubSeq(s, pos, Len(s))
        ELSE SubSeq(s, pos, Min(occ) - 1) \o NullToken \o ReplaceFrom(s, Min(occ) + 3)

ReplaceNaN(s) == ReplaceFrom(s, 1)

\* sep.join(items)
RECURSIVE Join(_, _)
Join(sep, items) ==
    IF items = <<>> THEN <<>>
    ELSE IF Len(items) = 1 THEN items[1]
    ELSE items[1] \o sep \o Join(sep, Tail(items))

(***************************************************************************)
(* re.findall(r'"([^"]+)"(?=\s*:)', s)                                     *)
(***************************************************************************)
\* the lookahead (?=\s*:) at position j
LookaheadColon(s, j) ==
    \E c \in j..Len(s) : s[c] = ":" /\ \A x \in j..(c - 1) : s[x] \in Whitespace

\* The scan from position pos: the pattern can only match at a quote, its group
\* runs to the next quote and must not be empty; after a match the scan resumes
\* behind the closing quote, after a failure one character further.
RECURSIVE FindAllFrom(_, _)
FindAllFrom(s, pos) ==
    LET quotes == {p \in pos..Len(s) : s[p] = "\""}
    IN  IF quotes = {} THEN <<>>
        ELSE LET p == Min(quotes)
                 later == {q \in quotes : q > p}
             IN  IF later = {} THEN <<>>
                 ELSE LET q == Min(later)
                      IN  IF q > p + 1 /\ LookaheadColon(s, q + 1)
                          THEN <<SubSeq(s, p + 1, q - 1)>> \o FindAllFrom(s, q + 1)
                          ELSE FindAllFrom(s, p + 1)

FindAllKeys(s) == FindAllFrom(s, 1)

(***************************************************************************)
(* An exception is [cls, msg]: its class and str(e).  NoError stands for   *)
(* "nothing was raised".  json.loads raises JSONDecodeError on text that   *)
(* is not JSON, ValueError on an integer of more digits than int() accepts *)
(* and RecursionError on containers nested deeper than the interpreter's   *)
(* recursion limit allows; the texts of these three never reach a          *)
(* description and are kept short.                                         *)
(***************************************************************************)
NoError == [cls |-> "none", msg |-> <<>>]

JSONDecodeError == [cls |-> "JSONDecodeError", msg |-> <<"E", "x", "p", "e", "c", "t", "i", "n", "g">>]

ValueError ==
    [cls |-> "ValueError",
     msg |-> <<"E", "x", "c", "e", "e", "d", "s", " ", "t", "h", "e", " ", "l", "i", "m", "i", "t", " ", "(", "4", "3", "0", "0", " ", "d", "i", "g", "i", "t", "s", ")", " ", "f", "o", "r", " ", "i", "n", "t", "e", "g", "e", "r", " ", "s", "t", "r", "i", "n", "g", " ", "c", "o", "n", "v", "e", "r", "s", "i", "o", "n">>]

RecursionError ==
    [cls |-> "RecursionError",
     msg |-> <<"m", "a", "x", "i", "m", "u", "m", " ", "r", "e", "c", "u", "r", "s", "i", "o", "n", " ", "d", "e", "p", "t", "h", " ", "e", "x", "c", "e", "e", "d", "e", "d", " ", "w", "h", "i", "l", "e", " ", "d", "e", "c", "o", "d", "i", "n", "g", " ", "a", " ", "J", "S", "O", "N", " ", "d", "o", "c", "u", "m", "e", "n", "t">>]

\* sys.get_int_max_str_digits(): the longest run of digits int() converts
int_max_str_digits == 4300

\* sys.getrecursionlimit()
RecursionLimit == 1000

\* the frames on the stack when the scanner runs: the module, main,
\* preview_large_json, analyze_json_structure, loads, decode, raw_decode
ScannerFrames == 7

(***************************************************************************)
(* json.loads, for text over the characters the files of the model are     *)
(* made of: objects, arrays, strings, integers written with the digit 1,   *)
(* null and NaN.  A parse result is [ok, next, keys, raised]: next is the  *)
(* position behind the value, keys the member names of an object in source *)
(* order, raised the exception when the value could not be parsed.         *)
(***************************************************************************)
JsonRaise(err) == [ok |-> FALSE, next |-> 0, keys |-> <<>>, raised |-> err]

JsonFail == JsonRaise(JSONDecodeError)

JsonOk(n, ks) == [ok |-> TRUE, next |-> n, keys |-> ks, raised |-> NoError]

\* json.decoder.WHITESPACE.match(s, p).end()
SkipWs(s, p) ==
    LET solid == {i \in p..Len(s) : s[i] \notin Whitespace}
    IN  IF solid = {} THEN Len(s) + 1 ELSE Min(solid)

CharAt(s, p) == IF p >= 1 /\ p <= Len(s) THEN s[p] ELSE ""

\* json.decoder.scanstring(s, p + 1, strict=True) with s[p] the opening quote:
\* the string runs to the next quote and holds no control character.
ScanString(s, p) ==
    LET closing == {q \in (p + 1)..Len(s) : s[q] = "\""}
    IN  IF closing = {} THEN JsonFail
        ELSE LET q == Min(closing)
             IN  IF \E x \in (p + 1)..(q - 1) : s[x] \in ControlChars THEN JsonFail
                 ELSE JsonOk(q + 1, <<SubSeq(s, p + 1, q - 1)>>)

\* the number at p, s[p] being the digit 1: the run of digits is matched and
\* converted with int(), which raises on more than int_max_str_digits digits
ScanNumber(s, p) ==
    LET other == {q \in p..Len(s) : s[q] # "1"}
        end == IF other = {} THEN Len(s) + 1 ELSE Min(other)
    IN  IF end - p > int_max_str_digits THEN JsonRaise(ValueError)
        ELSE JsonOk(end, <<>>)

\* Py_EnterRecursiveCall of the scanner before it parses an object or an
\* array that lies inside depth containers
TooDeep(depth) == depth + 1 + ScannerFrames >= RecursionLimit

RECURSIVE ParseValue(_, _, _), ParseMembers(_, _, _, _), ParseElements(_, _, _)
\* the scanner's scan_once at p, inside depth containers
ParseValue(s, p, depth) ==
    LET c == CharAt(s, p)
    IN  CASE c = "\"" -> IF ScanString(s, p).ok THEN JsonOk(ScanString(s, p).next, <<>>)
                         ELSE JsonFail
          [] c = "{" ->
               LET m == SkipWs(s, p + 1)
               IN  IF TooDeep(depth) THEN JsonRaise(RecursionError)
                   ELSE IF CharAt(s, m) = "}" THEN JsonOk(m + 1, <<>>)
                   ELSE IF CharAt(s, m) = "\"" THEN ParseMembers(s, m, <<>>, depth + 1)
                   ELSE JsonFail
          [] c = "[" ->
               LET m == SkipWs(s, p + 1)
               IN  IF TooDeep(depth) THEN JsonRaise(RecursionError)
                   ELSE IF CharAt(s, m) = "]" THEN JsonOk(m + 1, <<>>)
                   ELSE ParseElements(s, m, depth + 1)
          [] c = "n" -> IF p + 3 <= Len(s) /\ SubSeq(s, p, p + 3) = NullToken
                        THEN JsonOk(p + 4, <<>>) ELSE JsonFail
          [] c = "N" -> IF p + 2 <= Len(s) /\ SubSeq(s, p, p + 2) = NaNToken
                        THEN JsonOk(p + 3, <<>>) ELSE JsonFail
          [] c = "1" -> ScanNumber(s, p)
          [] OTHER -> JsonFail

\* json.decoder.JSONObject, the loop over the members; s[p] is the quote that
\* opens a name, the members lie inside depth containers
ParseMembers(s, p, acc, depth) ==
    LET name == ScanString(s, p)
        colon == SkipWs(s, name.next)
        value == ParseValue(s, SkipWs(s, colon + 1), depth)
        delim == SkipWs(s, value.next)
        more == SkipWs(s, delim + 1)
    IN  IF ~name.ok \/ CharAt(s, colon) # ":" THEN JsonFail
        ELSE IF ~value.ok THEN JsonRaise(value.raised)
        ELSE IF CharAt(s, delim) = "}" THEN JsonOk(delim + 1, acc \o name.keys)
        ELSE IF CharAt(s, delim) = "," /\ CharAt(s, more) = "\""
             THEN ParseMembers(s, more, acc \o name.keys, depth)
        ELSE JsonFail

\* json.decoder.JSONArray, the loop over the elements, which lie inside depth
\* containers
ParseElements(s, p, depth) ==
    LET value == ParseValue(s, p, depth)
        delim == SkipWs(s, value.next)
    IN  IF ~value.ok THEN JsonRaise(value.raised)
        ELSE IF CharAt(s, delim) = "]" THEN JsonOk(delim + 1, <<>>)
        ELSE IF CharAt(s, delim) = "," THEN ParseElements(s, SkipWs(s, delim + 1), depth)
        ELSE JsonFail

\* The keys of the dict built from the (name, value) pairs of an object: a
\* repeated name keeps the position of its first occurrence.
RECURSIVE DictKeys(_, _)
DictKeys(names, acc) ==
    IF names = <<>> THEN acc
    ELSE DictKeys(Tail(names),
                  IF \E j \in 1..Len(acc) : acc[j] = Head(names) THEN acc
                  ELSE Append(acc, Head(names)))

\* json.loads(s) followed by list(first_obj.keys()): [ok, keys, raised]; not
\* ok when json.loads raises, a JSONDecodeError too when text follows the
\* value.  The text starts with '{' after whitespace wherever the script
\* calls it, so a parsed value is a dict.
JsonLoads(s) ==
    LET v == ParseValue(s, SkipWs(s, 1), 0)
    IN  IF ~v.ok THEN [ok |-> FALSE, keys |-> <<>>, raised |-> v.raised]
        ELSE IF SkipWs(s, v.next) # Len(s) + 1
             THEN [ok |-> FALSE, keys |-> <<>>, raised |-> JSONDecodeError]
        ELSE [ok |-> TRUE, keys |-> DictKeys(v.keys, <<>>), raised |-> NoError]

(***************************************************************************)
(* Exceptions of the file operations: os.path.getsize, open and f.read     *)
(* raise OSError or one of its subclasses.                                 *)
(***************************************************************************)
FileNotFoundError == [cls |-> "FileNotFoundError", msg |-> <<"E", "N", "O", "E", "N", "T">>]

OSError == [cls |-> "OSError", msg |-> <<"E", "I", "O">>]

IOErrors == {FileNotFoundError, OSError}

\* what a file operation can do: succeed (NoError) or raise
IOOutcomes == {NoError} \cup IOErrors

\* Mutant of ExceptException: the clause written as 'except OSError'.
ExceptOSErrorOnly(err) == err.cls \in {"FileNotFoundError", "OSError"}

\* the exceptions that derive from BaseException and not from Exception
NotExceptions ==
    {"BaseException", "BaseExceptionGroup", "KeyboardInterrupt", "SystemExit", "GeneratorExit",
     "CancelledError"}

\* 'except Exception': every class but those
ExceptException(err) == err.cls \notin NotExceptions

\* the bare 'except:' of the byte-sniff tier
ExceptBare(err) == TRUE

\* The except clause an exception lands in, given the clauses around the raise
\* from the innermost out; "main" when none of them catches it.
RECURSIVE Landing(_, _)
Landing(handlers, err) ==
    IF handlers = <<>> THEN "main"
    ELSE IF (IF Head(handlers) = "line116" THEN ExceptBare(err) ELSE ExceptException(err))
         THEN Head(handlers)
    ELSE Landing(Tail(handlers), err)

(***************************************************************************)
(* analyze_json_structure: what each tier computes once its read succeeded *)
(***************************************************************************)
\* lines 43-46
CleanStart(bytes) == ReplaceNaN(Read(bytes, StartContentChars))

\* line 55
FastPathKeys(bytes) == FindAllKeys(Slice(CleanStart(bytes), KeyWindowChars))

\* Mutant of FastPath: the first character is tested without strip().
FastPathNoStrip(bytes) ==
    IF StartsWith(CleanStart(bytes), "{")
    THEN IF FastPathKeys(bytes) # <<>> THEN <<>> ELSE ObjectDictionary
    ELSE IF StartsWith(CleanStart(bytes), "[") THEN ArrayList
    ELSE UnknownStructure

\* lines 49-71: the description returned, or <<>> when the loop over the keys is entered
FastPath(bytes) ==
    IF StartsWith(Strip(CleanStart(bytes)), "{")
    THEN IF FastPathKeys(bytes) # <<>> THEN <<>> ELSE ObjectDictionary
    ELSE IF StartsWith(Strip(CleanStart(bytes)), "[") THEN ArrayList
    ELSE UnknownStructure

\* Mutant of AppendUnique: the test 'key not in unique_keys' is missing.
AppendCapped(uk, key) == IF Len(uk) < max_items THEN Append(uk, key) ELSE uk

\* Mutant of AppendUnique: the cap is tested with <= instead of <.
AppendUniqueOffByOne(uk, key) ==
    IF (\A j \in 1..Len(uk) : uk[j] # key) /\ Len(uk) <= max_items
    THEN Append(uk, key) ELSE uk

\* lines 61-62
AppendUnique(uk, key) ==
    IF (\A j \in 1..Len(uk) : uk[j] # key) /\ Len(uk) < max_items
    THEN Append(uk, key) ELSE uk

\* lines 84-94: 0, or the position behind the first '}' at which bracket_count is 0
EndPos(clean_content) ==
    LET opens == {i \in 1..Len(clean_content) : clean_content[i] = "{"}
        closes == {i \in 1..Len(clean_content) : clean_content[i] = "}"}
        bracket_count(i) == Cardinality({j \in opens : j <= i})
                              - Cardinality({j \in closes : j <= i})
        zero == {i \in closes : bracket_count(i) = 0}
    IN  IF zero = {} THEN 0 ELSE Min(zero)

\* lines 78-79
CleanChunk(bytes) == ReplaceNaN(Read(bytes, Tier2Chars))

\* Mutant of BracketMatch: the JSONDecodeError of json.loads is caught inside
\* the tier and answered with the description of line 102.
BracketMatchSwallowsParseError(bytes) ==
    LET clean_content == CleanChunk(bytes)
        end_pos == EndPos(clean_content)
        first_obj == JsonLoads(Slice(clean_content, end_pos))
    IN  IF StartsWith(Strip(clean_content), "{") /\ end_pos > 0 /\ first_obj.ok
        THEN [raised |-> NoError,
              keys |-> Slice(first_obj.keys, max_items),
              description |-> ObjectWithKeys
                                \o Join(KeySeparator, Slice(first_obj.keys, max_items))]
        ELSE [raised |-> NoError, keys |-> <<>>, description |-> DetailsNotParsed]

\* lines 82-102: [raised, keys, description]
BracketMatch(bytes) ==
    LET clean_content == CleanChunk(bytes)
        end_pos == EndPos(clean_content)
        first_obj == JsonLoads(Slice(clean_content, end_pos))
    IN  IF StartsWith(Strip(clean_content), "{") /\ end_pos > 0
        THEN IF first_obj.ok
             THEN [raised |-> NoError,
                   keys |-> Slice(first_obj.keys, max_items),
                   description |-> ObjectWithKeys
                                     \o Join(KeySeparator, Slice(first_obj.keys, max_items))]
             ELSE [raised |-> first_obj.raised, keys |-> <<>>, description |-> <<>>]
        ELSE [raised |-> NoError, keys |-> <<>>, description |-> DetailsNotParsed]

\* lines 108-114
ByteSniff(bytes) ==
    LET first_char == Decode(ReadBytes(bytes, 1))
    IN  IF first_char = <<"{">> THEN ObjectWithNaN
        ELSE IF first_char = <<"[">> THEN ArrayWithNaN
        ELSE UnknownWithNaN

\* Mutant of CouldNotAnalyzeStructure: the message of nested_e is embedded.
CouldNotAnalyzeNested(e1, nested_e, last) == CouldNotAnalyze \o nested_e.msg

\* line 116: e is the exception of the fast-path tier, nested_e that of the
\* bracket-matching tier, last that of the byte-sniff tier
CouldNotAnalyzeStructure(e1, nested_e, last) == CouldNotAnalyze \o e1.msg

\* lines 22-26
PreviewResult(preview, structure, fsize) ==
    [preview |-> preview, structure |-> structure, file_size |-> fsize]

\* Mutant of PreviewExcept: the size read before the failure is reported.
PreviewExceptKeepsSize(err) ==
    PreviewResult(ErrorReadingFile \o err.msg, StructureError, file_size)

\* lines 27-32
PreviewExcept(err) == PreviewResult(ErrorReadingFile \o err.msg, StructureError, 0)

(***************************************************************************)
(* The files of the model                                                  *)
(***************************************************************************)
Quoted(name) == <<"\"">> \o name \o <<"\"">>

KeyNames ==
    << <<"a">>, <<"b">>, NaNToken, <<"c">>, <<"d">>, <<"f">>, NullToken, <<"g">>, <<"h">> >>

\* how a generated object writes the colon and the value of every member
ValueStyles ==
    { [colon |-> <<":">>, value |-> <<"1">>],
      [colon |-> <<" ", ":">>, value |-> NaNToken],
      [colon |-> <<":">>, value |-> <<"{">> \o Quoted(<<"a">>) \o <<":", "1", "}">>],
      [colon |-> <<":">>, value |-> Quoted(<<"}">>)] }

\* the object whose members are named KeyNames[ks[1]], KeyNames[ks[2]], ...
Render(ks, style) ==
    <<"{">> \o Join(<<",">>, [i \in 1..Len(ks) |->
                               Quoted(KeyNames[ks[i]]) \o style.colon \o style.value])
           \o <<"}">>

\* the lists of n key numbers in which every new key is the next unused number
RECURSIVE KeyLists(_)
KeyLists(n) ==
    IF n = 0 THEN {<<>>}
    ELSE UNION {{Append(ks, k) : k \in 1..(Max({0} \cup {ks[i] : i \in 1..(n - 1)}) + 1)} :
                   ks \in KeyLists(n - 1)}

ObjectFiles ==
    {Render(ks, style) : ks \in UNION {KeyLists(n) : n \in 0..MaxKeys}, style \in ValueStyles}

Pad(n) == [i \in 1..n |-> " "]

\* an object with MaxKeys distinct members behind leading whitespace that ends
\* shortly before or at one of the read limits of the script
PaddedFiles ==
    {Pad(n) \o Render([i \in 1..MaxKeys |-> i], [colon |-> <<":">>, value |-> <<"1">>]) :
        n \in {KeyWindowChars - 5, StartContentChars - 5, StartContentChars, Tier2Chars - 5}}

Tokens ==
    { <<"{">>, <<"}">>, <<"[">>, Quoted(<<"a">>), <<":">>, <<" ">>, NaNToken, <<InvalidByte>> }

\* every concatenation of at most MaxLen tokens
TokenFiles ==
    {Join(<<>>, ts) : ts \in UNION {[1..n -> Tokens] : n \in 0..MaxLen}}

\* an object whose member is an integer of as many digits as int() converts,
\* and of one more
LongNumberFiles ==
    {<<"{">> \o Quoted(<<"a">>) \o <<":">> \o [i \in 1..n |-> "1"] \o <<"}">> :
        n \in {int_max_str_digits, int_max_str_digits + 1}}

\* the bytes of the files with carriage returns and with the encoding, whole
\* or broken, of a character that is not ASCII
EncodingTokens ==
    { <<CR>>, <<LF>>, <<LeadByte>>, <<ContinuationByte>>, <<InvalidByte>>, <<"{">>, <<"a">> }

\* every concatenation of at most MaxLen of them, and two objects: one on
\* lines that end with CR LF, one whose key is U+00E9
EncodingFiles ==
    {Join(<<>>, ts) : ts \in UNION {[1..n -> EncodingTokens] : n \in 0..MaxLen}}
    \cup { <<"{", CR, LF>> \o Quoted(<<"a">>) \o <<":", "1", CR, "}">>,
           <<"{">> \o Quoted(<<LeadByte, ContinuationByte>>) \o <<":", "1", "}">> }

Corpus == ObjectFiles \cup PaddedFiles \cup TokenFiles \cup LongNumberFiles \cup EncodingFiles

\* the files a directory of several files is made of
SampleFiles ==
    { <<InvalidByte, "{">> \o Quoted(<<"a">>) \o <<":", "1", "}">>,
      <<"[", CR, LF, "1", "]">> }

Budgets == (-1..MaxBudget) \cup {DefaultSize}

\* The character a file name holds in place of a byte that is not UTF-8 (the
\* lone surrogate U+DCFF of os.fsdecode); it cannot be encoded as UTF-8.
Surrogate == "uDCFF"

PlainName == <<"a", ".", "j", "s", "o", "n">>

\* the calls of out_f.write of one block: lines 164, 165, 166, 167, 170, 173,
\* 174 and 175
BlockWrites == 8

\* The environment of a run, [report, stdout]: the operations on the report
\* made from the loop on (the calls of out_f.write that reach the stream and
\* the close of out_f) raise OSError from the one of number report on, the
\* calls of print from the one of number stdout on raise BrokenPipeError; 0
\* when they never do.
NoFaults == [report |-> 0, stdout |-> 0]

\* the names of the files relative to the parent of the scanned directory
FileNames == {PlainName, <<"a", Surrogate>> \o <<".", "j", "s", "o", "n">>}

(***************************************************************************)
(* format_file_size                                                        *)
(*                                                                         *)
(* The argument is an int and is a float from the first division on.  A    *)
(* number is held exactly, as hi * 2^30 + lo + frac / 2^30 with lo and     *)
(* frac in 0 .. 2^30 - 1.  Below 2^53 the division of an int or of a float *)
(* by 1024 is exact (it changes the exponent only), so for such sizes the  *)
(* record is the value the script holds.                                   *)
(***************************************************************************)
Kibi == 1024

Radix == Kibi * Kibi * Kibi

\* the units of line 131
Units == << <<"B">>, <<"K", "B">>, <<"M", "B">>, <<"G", "B">> >>

\* the value of a call that ends without a return statement
None == <<"None">>

Number(hi, lo, frac) == [hi |-> hi, lo |-> lo, frac |-> frac]

\* an int below 2^31 as a number
FromInt(n) == Number(n \div Radix, n % Radix, 0)

\* Mutant of Below1024: the comparison is not strict.
Below1024Inclusive(x) == x.hi = 0 /\ (x.lo < Kibi \/ (x.lo = Kibi /\ x.frac = 0))

\* size_in_bytes < 1024
Below1024(x) == x.hi = 0 /\ x.lo < Kibi

\* size_in_bytes /= 1024
DivideBy1024(x) ==
    Number(x.hi \div Kibi,
           ((x.hi % Kibi) * (Radix \div Kibi)) + (x.lo \div Kibi),
           ((x.lo % Kibi) * (Radix \div Kibi)) + (x.frac \div Kibi))

DigitChars == <<"0", "1", "2", "3", "4", "5", "6", "7", "8", "9">>

\* the decimal digits of a non-negative integer
RECURSIVE DecimalDigits(_)
DecimalDigits(n) ==
    IF n < 10 THEN <<DigitChars[n + 1]>>
    ELSE DecimalDigits(n \div 10) \o <<DigitChars[(n % 10) + 1]>>

\* 100 * frac / 2^30 rounded to the nearest integer, a tie to the even one,
\* as the 'f' presentation type rounds; computed in two halves of 15 bits
Hundredths(frac) ==
    LET H == Kibi * 32
        t == 100 * (frac % H)
        u == 100 * (frac \div H) + (t \div H)
        floor == u \div H
        rest == ((u % H) * H) + (t % H)
    IN  IF rest > Radix \div 2 \/ (rest = Radix \div 2 /\ floor % 2 = 1)
        THEN floor + 1 ELSE floor

\* f"{x:.2f}"
TwoDecimals(x) ==
    LET h == Hundredths(x.frac)
        whole == (x.hi * Radix) + x.lo + (IF h = 100 THEN 1 ELSE 0)
    IN  DecimalDigits(whole) \o <<".">>
            \o <<DigitChars[((h % 100) \div 10) + 1], DigitChars[(h % 10) + 1]>>

\* the loop of lines 131-134 from the unit of index unit on
RECURSIVE FormatFrom(_, _)
FormatFrom(x, unit) ==
    IF unit > Len(Units) THEN None
    ELSE IF Below1024(x) \/ Units[unit] = <<"G", "B">>
         THEN TwoDecimals(x) \o <<" ">> \o Units[unit]
         ELSE FormatFrom(DivideBy1024(x), unit + 1)

format_file_size(x) == FormatFrom(x, 1)

(***************************************************************************)
(* Initial states: main has parsed its arguments and find_json_files has   *)
(* returned the list of files.                                             *)
(***************************************************************************)
Locals ==
    /\ file_size = 0
    /\ preview_data = <<>>
    /\ preview_info = PreviewResult(<<>>, <<>>, 0)
    /\ structure_info = <<>>
    /\ e = NoError
    /\ keys = <<>>
    /\ unique_keys = <<>>
    /\ key_pos = 0
    /\ tiers = <<>>

Start ==
    /\ pc = "for"
    /\ file_path = 0
    /\ out_f = <<>>
    /\ uncaught = NoError
    /\ main_raised = NoError
    /\ size_in_bytes = FromInt(0)
    /\ formatted = None
    /\ Locals

\* a directory of up to MaxFiles files, any budget
InitMain ==
    /\ json_files \in UNION {[1..n -> SampleFiles] : n \in 0..MaxFiles}
    /\ rel_paths \in [1..Len(json_files) -> FileNames]
    /\ size \in Budgets
    /\ faults = NoFaults
    /\ Start

\* the environments in which the report or stdout fails: at any operation of
\* a run over MaxFiles files
FaultScenarios ==
    {[report |-> n, stdout |-> 0] : n \in 1..((BlockWrites * MaxFiles) + 1)}
    \cup {[report |-> 0, stdout |-> m] : m \in 1..(MaxFiles + 1)}

\* the file of the directories whose report or stdout fails: an object after
\* a byte that is not UTF-8
FaultFile == <<InvalidByte, "{">> \o Quoted(<<"a">>) \o <<":", "1", "}">>

\* a directory of up to MaxFiles such files with any names, the default
\* budget, a report or a stdout that fails
InitFaults ==
    /\ json_files \in UNION {[1..n -> {FaultFile}] : n \in 0..MaxFiles}
    /\ rel_paths \in [1..Len(json_files) -> FileNames]
    /\ size = DefaultSize
    /\ faults \in FaultScenarios
    /\ Start

\* a directory of one file of the corpus, the default budget
InitSniff ==
    /\ json_files \in {<<f>> : f \in Corpus}
    /\ rel_paths = <<PlainName>>
    /\ size = DefaultSize
    /\ faults = NoFaults
    /\ Start

Init == InitMain \/ InitSniff \/ InitFaults

\* the digits in base 1024 a size is made of: the small ones, those whose two
\* decimals are a tie (128 / 1024 = 0.125, 384 / 1024 = 0.375) and the largest
SizeDigits == (0..MaxDigit) \cup {128, 384, Kibi - 1}

\* the numbers of whole GB of a size, up to 2^51 bytes
SizeGBs == (0..MaxDigit) \cup {Kibi - 1, Kibi, Kibi + 1, 2 * Kibi * Kibi}

\* the sizes in bytes format_file_size is called with
Sizes ==
    {Number(g, (m * Kibi * Kibi) + (k * Kibi) + b, 0) :
        g \in SizeGBs, m \in SizeDigits, k \in SizeDigits, b \in SizeDigits}

\* a call of format_file_size on its own, with any of the sizes
InitFormat ==
    /\ json_files = <<>>
    /\ rel_paths = <<>>
    /\ faults = NoFaults
    /\ main_raised = NoError
    /\ size = DefaultSize
    /\ pc = "format_file_size"
    /\ file_path = 0
    /\ out_f = <<>>
    /\ uncaught = NoError
    /\ Locals
    /\ size_in_bytes \in Sizes
    /\ formatted = None

(***************************************************************************)
(* Control flow shared by the steps                                        *)
(***************************************************************************)
CurrentFile == json_files[file_path]

\* err is raised inside tier `tier` of analyze_json_structure (0: in
\* preview_large_json itself) with the except clauses `handlers` around it.
Raise(err, handlers, tier) ==
    LET h == Landing(handlers, err)
        description == CouldNotAnalyzeStructure(e, tiers[2].raised, err)
    IN  /\ tiers' = Append(tiers, [tier |-> tier, raised |-> err])
        /\ e' = IF h = "line73" THEN err ELSE e
        /\ pc' = CASE h = "line73" -> "tier2"
                   [] h = "line104" -> "tier3"
                   [] h \in {"line116", "line27"} -> "write"
                   [] OTHER -> "crashed"
        /\ structure_info' = IF h = "line116" THEN description ELSE structure_info
        /\ preview_info' = CASE h = "line116" -> PreviewResult(preview_data, description, file_size)
                             [] h = "line27" -> PreviewExcept(err)
                             [] OTHER -> preview_info
        /\ uncaught' = IF h = "main" THEN err ELSE uncaught
        /\ UNCHANGED <<json_files, size, file_path, out_f, file_size, preview_data,
                       keys, unique_keys, key_pos>>

\* tier `tier` returns description; preview_large_json returns its dictionary (lines 20-26)
Return(description, tier, ks) ==
    /\ tiers' = Append(tiers, [tier |-> tier, raised |-> NoError])
    /\ structure_info' = description
    /\ preview_info' = PreviewResult(preview_data, description, file_size)
    /\ keys' = ks
    /\ pc' = "write"
    /\ UNCHANGED <<json_files, size, file_path, out_f, file_size, preview_data,
                   e, unique_keys, key_pos, uncaught>>

(***************************************************************************)
(* main: the loop of lines 156-177                                         *)
(***************************************************************************)
\* line 156, another file: line 161 calls preview_large_json
MainNextFile ==
    /\ UNCHANGED <<size_in_bytes, formatted, rel_paths, faults, main_raised>>
    /\ pc = "for"
    /\ file_path < Len(json_files)
    /\ file_path' = file_path + 1
    /\ pc' = "getsize"
    /\ file_size' = 0
    /\ preview_data' = <<>>
    /\ preview_info' = PreviewResult(<<>>, <<>>, 0)
    /\ structure_info' = <<>>
    /\ e' = NoError
    /\ keys' = <<>>
    /\ unique_keys' = <<>>
    /\ key_pos' = 0
    /\ tiers' = <<>>
    /\ UNCHANGED <<json_files, size, out_f, uncaught>>

\* str.encode('utf-8') of the text stream out_f succeeds on the text
Encodable(text) == \A i \in 1..Len(text) : text[i] # Surrogate

UnicodeEncodeError ==
    [cls |-> "UnicodeEncodeError",
     msg |-> <<"'", "u", "t", "f", "-", "8", "'", " ", "c", "o", "d", "e", "c", " ", "c", "a", "n", "'", "t", " ", "e", "n", "c", "o", "d", "e", " ", "c", "h", "a", "r", "a", "c", "t", "e", "r">>]

BrokenPipeError ==
    [cls |-> "BrokenPipeError",
     msg |-> <<"[", "E", "r", "r", "n", "o", " ", "3", "2", "]", " ", "B", "r", "o", "k", "e", "n", " ", "p", "i", "p", "e">>]

\* the call among them that writes the name of the file: line 165
NameWrite == 2

\* the operation of that number on the report raises OSError
ReportFails(op) == faults.report # 0 /\ op >= faults.report

\* the call of print of that number raises BrokenPipeError: the print of line
\* 177 of file p is call p, the print of line 179 the call after the last
PrintFails(n) == faults.stdout # 0 /\ n >= faults.stdout

\* The exception main ends with when err leaves the with statement of line
\* 152 after returned operations on the report: out_f is closed on the way
\* out, and the OSError of a close that fails takes the place of err.
LeaveWith(err, returned) == IF ReportFails(returned + 1) THEN OSError ELSE err

\* What lines 164-177 do for file p, as [writes, raised]: the number of calls
\* of out_f.write that returned and the exception main ends with, NoError
\* when the loop goes on.  A call raises OSError when the report fails; the
\* call of line 165 encodes the name first and raises UnicodeEncodeError on
\* a name that cannot be encoded; after the block, print can raise.
WriteOutcome(p) ==
    LET before == BlockWrites * (p - 1)
        bad_name == ~Encodable(rel_paths[p])
        failing == {k \in 1..BlockWrites : (k = NameWrite /\ bad_name) \/ ReportFails(before + k)}
        k == Min(failing)
    IN  IF failing # {}
        THEN [writes |-> k - 1,
              raised |-> LeaveWith(IF k = NameWrite /\ bad_name THEN UnicodeEncodeError
                                   ELSE OSError,
                                   before + (k - 1))]
        ELSE IF PrintFails(p)
             THEN [writes |-> BlockWrites,
                   raised |-> LeaveWith(BrokenPipeError, before + BlockWrites)]
        ELSE [writes |-> BlockWrites, raised |-> NoError]

\* What the end of main does once the loop is over: the with statement closes
\* out_f, then line 179 prints; the exception main ends with, NoError if none.
MainEnd ==
    IF ReportFails((BlockWrites * Len(json_files)) + 1) THEN OSError
    ELSE IF PrintFails(Len(json_files) + 1) THEN BrokenPipeError
    ELSE NoError

\* the block of the current file after writes calls of out_f.write
Block(writes) ==
    [path |-> file_path,
     FILE |-> rel_paths[file_path],
     file_size |-> preview_info.file_size,
     SIZE |-> format_file_size(FromInt(preview_info.file_size)),
     structure |-> preview_info.structure,
     preview |-> preview_info.preview,
     writes |-> writes]

\* line 156, no file left; the end of the with statement and line 179
MainDone ==
    /\ UNCHANGED <<size_in_bytes, formatted, rel_paths, faults>>
    /\ pc = "for"
    /\ file_path = Len(json_files)
    /\ main_raised' = MainEnd
    /\ pc' = IF MainEnd = NoError THEN "done" ELSE "aborted"
    /\ UNCHANGED <<json_files, size, file_path, out_f, file_size, preview_data, preview_info,
                   structure_info, e, keys, unique_keys, key_pos, tiers, uncaught>>

\* lines 164-177: the report block of the file and the print after it.  An
\* exception of a write or of the print leaves the loop and main: the run is
\* over, with the block partial when a write raised.
WriteBlock ==
    /\ UNCHANGED <<size_in_bytes, formatted, rel_paths, faults>>
    /\ pc = "write"
    /\ LET w == WriteOutcome(file_path)
       IN  /\ out_f' = Append(out_f, Block(w.writes))
           /\ main_raised' = w.raised
           /\ pc' = IF w.raised = NoError THEN "for" ELSE "aborted"
    /\ UNCHANGED <<json_files, size, file_path, file_size, preview_data, preview_info,
                   structure_info, e, keys, unique_keys, key_pos, tiers, uncaught>>

(***************************************************************************)
(* preview_large_json                                                      *)
(***************************************************************************)
\* line 13
GetSize ==
    /\ UNCHANGED <<size_in_bytes, formatted, rel_paths, faults, main_raised>>
    /\ pc = "getsize"
    /\ \E io \in IOOutcomes :
          IF io = NoError
          THEN /\ file_size' = Len(CurrentFile)
               /\ pc' = "read"
               /\ UNCHANGED <<json_files, size, file_path, out_f, preview_data, preview_info,
                              structure_info, e, keys, unique_keys, key_pos, tiers, uncaught>>
          ELSE Raise(io, <<"line27">>, 0)

\* lines 16-17; line 20 calls analyze_json_structure
ReadPreview ==
    /\ UNCHANGED <<size_in_bytes, formatted, rel_paths, faults, main_raised>>
    /\ pc = "read"
    /\ \E io \in IOOutcomes :
          IF io = NoError
          THEN /\ preview_data' = Read(CurrentFile, size)
               /\ pc' = "tier1"
               /\ UNCHANGED <<json_files, size, file_path, out_f, file_size, preview_info,
                              structure_info, e, keys, unique_keys, key_pos, tiers, uncaught>>
          ELSE Raise(io, <<"line27">>, 0)

(***************************************************************************)
(* analyze_json_structure                                                  *)
(***************************************************************************)
\* Mutant of FastPathTier: a fast path that found no structure falls through to
\* the bracket-matching tier instead of returning.
FastPathTierFallsThrough ==
    /\ UNCHANGED <<size_in_bytes, formatted, rel_paths, faults, main_raised>>
    /\ pc = "tier1"
    /\ \E io \in IOOutcomes :
          IF io # NoError THEN Raise(io, <<"line73", "line27">>, 1)
          ELSE IF FastPath(CurrentFile) = UnknownStructure
               THEN /\ tiers' = Append(tiers, [tier |-> 1, raised |-> NoError])
                    /\ pc' = "tier2"
                    /\ UNCHANGED <<json_files, size, file_path, out_f, file_size, preview_data,
                                   preview_info, structure_info, e, keys, unique_keys, key_pos,
                                   uncaught>>
          ELSE IF FastPath(CurrentFile) # <<>> THEN Return(FastPath(CurrentFile), 1, keys)
          ELSE /\ keys' = FastPathKeys(CurrentFile)
               /\ unique_keys' = <<>>
               /\ key_pos' = 0
               /\ tiers' = Append(tiers, [tier |-> 1, raised |-> NoError])
               /\ pc' = "keys"
               /\ UNCHANGED <<json_files, size, file_path, out_f, file_size, preview_data,
                              preview_info, structure_info, e, uncaught>>

\* lines 39-71 up to the loop over the keys
FastPathTier ==
    /\ UNCHANGED <<size_in_bytes, formatted, rel_paths, faults, main_raised>>
    /\ pc = "tier1"
    /\ \E io \in IOOutcomes :
          IF io # NoError THEN Raise(io, <<"line73", "line27">>, 1)
          ELSE IF FastPath(CurrentFile) # <<>> THEN Return(FastPath(CurrentFile), 1, keys)
          ELSE /\ keys' = FastPathKeys(CurrentFile)
               /\ unique_keys' = <<>>
               /\ key_pos' = 0
               /\ tiers' = Append(tiers, [tier |-> 1, raised |-> NoError])
               /\ pc' = "keys"
               /\ UNCHANGED <<json_files, size, file_path, out_f, file_size, preview_data,
                              preview_info, structure_info, e, uncaught>>

\* lines 60-62, one iteration
KeyLoop ==
    /\ UNCHANGED <<size_in_bytes, formatted, rel_paths, faults, main_raised>>
    /\ pc = "keys"
    /\ key_pos < Len(keys)
    /\ unique_keys' = AppendUnique(unique_keys, keys[key_pos + 1])
    /\ key_pos' = key_pos + 1
    /\ UNCHANGED <<json_files, size, pc, file_path, out_f, file_size, preview_data, preview_info,
                   structure_info, e, keys, tiers, uncaught>>

\* line 64, after the loop
KeysReturn ==
    /\ UNCHANGED <<size_in_bytes, formatted, rel_paths, faults, main_raised>>
    /\ pc = "keys"
    /\ key_pos = Len(keys)
    /\ structure_info' = ObjectWithKeys \o Join(KeySeparator, unique_keys)
    /\ preview_info' = PreviewResult(preview_data, structure_info', file_size)
    /\ pc' = "write"
    /\ UNCHANGED <<json_files, size, file_path, out_f, file_size, preview_data,
                   e, keys, unique_keys, key_pos, tiers, uncaught>>

\* lines 75-102
BracketMatchingTier ==
    /\ UNCHANGED <<size_in_bytes, formatted, rel_paths, faults, main_raised>>
    /\ pc = "tier2"
    /\ \E io \in IOOutcomes :
          IF io # NoError THEN Raise(io, <<"line104", "line27">>, 2)
          ELSE IF BracketMatch(CurrentFile).raised # NoError
               THEN Raise(BracketMatch(CurrentFile).raised, <<"line104", "line27">>, 2)
          ELSE Return(BracketMatch(CurrentFile).description, 2, BracketMatch(CurrentFile).keys)

\* lines 106-116
ByteSniffTier ==
    /\ UNCHANGED <<size_in_bytes, formatted, rel_paths, faults, main_raised>>
    /\ pc = "tier3"
    /\ \E io \in IOOutcomes :
          IF io # NoError THEN Raise(io, <<"line116", "line27">>, 3)
          ELSE Return(ByteSniff(CurrentFile), 3, keys)

Next ==
    \/ MainNextFile
    \/ MainDone
    \/ WriteBlock
    \/ GetSize
    \/ ReadPreview
    \/ FastPathTier
    \/ KeyLoop
    \/ KeysReturn
    \/ BracketMatchingTier
    \/ ByteSniffTier

Spec == Init /\ [][Next]_vars

\* main is a sequential program: it keeps taking steps until it has ended
FairSpec == InitMain /\ [][Next]_vars /\ WF_vars(Next)

\* lines 129-134: the call returns
FormatFileSize ==
    /\ pc = "format_file_size"
    /\ formatted' = format_file_size(size_in_bytes)
    /\ pc' = "formatted"
    /\ UNCHANGED <<json_files, size, file_path, out_f, file_size, preview_data, preview_info,
                   structure_info, e, keys, unique_keys, key_pos, tiers, uncaught, size_in_bytes,
                   rel_paths, faults, main_raised>>

FormatSpec == InitFormat /\ [][FormatFileSize]_vars

(***************************************************************************)
(* Properties                                                              *)
(***************************************************************************)
HasPrefix(s, prefix) == Len(s) >= Len(prefix) /\ SubSeq(s, 1, Len(prefix)) = prefix

\* preview_large_json has returned and main is about to write the block
Returned == pc = "write"

\* analyze_json_structure was called by the current probe
Analyzed == tiers # <<>> /\ tiers[1].tier = 1

\* d is one of the descriptions the script can produce
IsDescription(d) ==
    \/ d \in {StructureError, ObjectDictionary, ArrayList, UnknownStructure, DetailsNotParsed,
              ObjectWithNaN, ArrayWithNaN, UnknownWithNaN}
    \/ HasPrefix(d, ObjectWithKeys)
    \/ HasPrefix(d, CouldNotAnalyze)

\* C1: whatever fails during a probe (getting the size, any open or read, the
\* JSON parse), no exception leaves preview_large_json or analyze_json_structure:
\* the probe returns a result whose structure field is a description text, and
\* the text is "Error" when the failure was in preview_large_json itself.
C1_NeverRaises ==
    /\ uncaught = NoError
    /\ pc # "crashed"
    /\ Returned =>
          /\ IsDescription(preview_info.structure)
          /\ \A k \in 1..Len(tiers) :
                tiers[k].tier = 0 => preview_info.structure = StructureError
          /\ Analyzed => /\ structure_info = preview_info.structure
                         /\ preview_info.structure # StructureError

\* a probe that returned after the parse of tier 2 and the read of tier 3 both failed
C1_Witness ==
    /\ Returned
    /\ Len(tiers) = 3
    /\ tiers[2].raised = JSONDecodeError
    /\ tiers[3].raised \in IOErrors

\* C2: the tiers of analyze_json_structure run in the order 1, 2, 3; the
\* bracket-matching tier is entered only after the fast path raised, the
\* byte-sniff tier only after the bracket-matching tier raised, and a tier
\* that returned a description is the last one to run.
C2_TiersInOrder ==
    /\ pc = "tier1" => tiers = <<>>
    /\ pc = "tier2" => Len(tiers) = 1 /\ tiers[1].tier = 1 /\ tiers[1].raised # NoError
    /\ pc = "tier3" => Len(tiers) = 2 /\ tiers[2].tier = 2 /\ tiers[2].raised # NoError
    /\ Analyzed => \A k \in 1..Len(tiers) : tiers[k].tier = k
    /\ \A k \in 1..Len(tiers) : tiers[k].raised = NoError => k = Len(tiers)

\* the byte-sniff tier returned its description after the two tiers before it raised
C2_Witness ==
    /\ Returned
    /\ Len(tiers) = 3
    /\ tiers[1].raised # NoError
    /\ tiers[2].raised # NoError
    /\ tiers[3].raised = NoError
    /\ structure_info \in {ObjectWithNaN, ArrayWithNaN, UnknownWithNaN}

\* the block was written whole
Complete(block) == block.writes = BlockWrites

\* the blocks written are those of the files 1, 2, ... in this order, each
\* of them whole, and a probe is under way only when the blocks of all files
\* before it are written
C3_Sequential ==
    /\ pc # "crashed"
    /\ Len(out_f) = IF pc \in {"for", "done", "aborted"} THEN file_path ELSE file_path - 1
    /\ \A k \in 1..Len(out_f) : out_f[k].path = k
    /\ \A k \in 1..Len(out_f) : Complete(out_f[k])

\* main has ended with one whole block per file
AllReported ==
    /\ pc = "done"
    /\ Len(out_f) = Len(json_files)
    /\ \A k \in 1..Len(out_f) : Complete(out_f[k])

\* C3: main handles the files one after another, the block of a file being
\* written before the probe of the next file begins, and for every list of
\* files and whatever probes fail it ends having written exactly one block
\* per file, in enumeration order.
C3_AsStated ==
    /\ [](C3_Sequential)
    /\ <>AllReported

\* main has ended; the probe of the first file failed and the second file was
\* probed and reported all the same
C3_Witness ==
    /\ AllReported
    /\ Len(json_files) >= 2
    /\ out_f[1].structure = StructureError
    /\ out_f[2].structure # StructureError

\* the fast-path tier read the file and returned the description of the probe
FastPathReturned == Returned /\ Analyzed /\ tiers[1].raised = NoError

\* the bracket-matching tier read the file and returned the description of the probe
BracketMatchReturned == Returned /\ Analyzed /\ Len(tiers) = 2 /\ tiers[2].raised = NoError

Distinct(s) == {s[m] : m \in 1..Len(s)}

FirstIndex(s, x) == Min({m \in 1..Len(s) : s[m] = x})

\* uk has no duplicates and at most max_items entries, all of them taken from
\* seen, in the order in which they first occur in seen
KeyListGood(uk, seen) ==
    /\ Len(uk) <= max_items
    /\ \A i, j \in 1..Len(uk) : i < j => uk[i] # uk[j]
    /\ \A i \in 1..Len(uk) : uk[i] \in Distinct(seen)
    /\ \A i, j \in 1..Len(uk) : i < j => FirstIndex(seen, uk[i]) < FirstIndex(seen, uk[j])

\* the member names, in source order, of the object the bracket-matching tier parses
MemberNames(bytes) ==
    LET text == Slice(CleanChunk(bytes), EndPos(CleanChunk(bytes)))
    IN  ParseValue(text, SkipWs(text, 1), 0).keys

\* C4: the key list of an object description has no duplicates, at most
\* max_items entries and the order of first occurrence: at every iteration
\* of the loop of the fast path with respect to the matches consumed so far,
\* in the description the fast path returns, and in the description the
\* bracket-matching tier returns with respect to the member names of the
\* parsed object.
C4_KeyListInvariant ==
    /\ pc = "keys" => KeyListGood(unique_keys, SubSeq(keys, 1, key_pos))
    /\ (FastPathReturned /\ HasPrefix(structure_info, ObjectWithKeys)) =>
          /\ KeyListGood(unique_keys, keys)
          /\ structure_info = ObjectWithKeys \o Join(KeySeparator, unique_keys)
    /\ BracketMatchReturned /\ HasPrefix(structure_info, ObjectWithKeys) =>
          /\ KeyListGood(keys, MemberNames(CurrentFile))
          /\ structure_info = ObjectWithKeys \o Join(KeySeparator, keys)

\* the loop has consumed all matches; they name more than max_items keys and
\* some key more than once, and the list is full
C4_Witness ==
    /\ pc = "keys"
    /\ key_pos = Len(keys)
    /\ Cardinality(Distinct(keys)) > max_items
    /\ Len(keys) > Cardinality(Distinct(keys))
    /\ Len(unique_keys) = max_items

\* the first character of s that is not whitespace, "" if there is none
FirstSolid(s) ==
    IF \A i \in 1..Len(s) : s[i] \in Whitespace THEN ""
    ELSE s[Min({i \in 1..Len(s) : s[i] \notin Whitespace})]

\* somewhere in s a double-quoted, non-empty token without a quote inside is
\* followed by a colon, with nothing but whitespace in between
HasKeyMatch(s) ==
    \E p \in 1..Len(s) :
       /\ s[p] = "\""
       /\ \E q \in (p + 2)..Len(s) :
             /\ s[q] = "\""
             /\ \A x \in (p + 1)..(q - 1) : s[x] # "\""
             /\ \E c \in (q + 1)..Len(s) :
                   /\ s[c] = ":"
                   /\ \A x \in (q + 1)..(c - 1) : s[x] \in Whitespace

\* C5: when the fast path reads the file, the first non-whitespace character
\* of the NaN-cleaned first 1024 characters decides the description: '{'
\* gives an object, with a key list exactly if the first 1000 characters hold
\* a quoted token followed by a colon; '[' gives an array; anything else,
\* also no character at all, gives the unknown structure.
C5_FastPathDecision ==
    FastPathReturned =>
       LET text == CleanStart(CurrentFile)
           window == SubSeq(text, 1, IF Len(text) < KeyWindowChars THEN Len(text)
                                     ELSE KeyWindowChars)
       IN  CASE FirstSolid(text) = "{" /\ HasKeyMatch(window) ->
                   /\ unique_keys # <<>>
                   /\ structure_info = ObjectWithKeys \o Join(KeySeparator, unique_keys)
             [] FirstSolid(text) = "{" /\ ~HasKeyMatch(window) ->
                   structure_info = ObjectDictionary
             [] FirstSolid(text) = "[" -> structure_info = ArrayList
             [] OTHER -> structure_info = UnknownStructure

\* an object described without a key list although a key stands among the
\* first 1024 characters: it stands behind the first 1000
C5_Witness ==
    /\ FastPathReturned
    /\ structure_info = ObjectDictionary
    /\ HasKeyMatch(CleanStart(CurrentFile))

\* the content of the file is a JSON object with more than max_items distinct top-level keys
ManyTopLevelKeys(bytes) ==
    JsonLoads(DecodeText(bytes)).ok /\ Len(JsonLoads(DecodeText(bytes)).keys) > max_items

\* C6 as stated: for every file that is a JSON object with more than 5
\* distinct top-level keys, the fast path lists exactly 5 keys, in first-seen
\* order and without duplicates.
C6_AsStated ==
    (FastPathReturned /\ ManyTopLevelKeys(CurrentFile)) =>
       /\ HasPrefix(structure_info, ObjectWithKeys)
       /\ Len(unique_keys) = max_items
       /\ KeyListGood(unique_keys, keys)

\* C6, amended: when more than 5 distinct names are matched in the first 1000
\* characters of the cleaned text, the fast path lists exactly 5 keys, in
\* first-seen order and without duplicates; in general it lists as many keys
\* as distinct names are matched there, up to 5.
C6_FiveOfTheMatchedKeys ==
    (FastPathReturned /\ HasPrefix(structure_info, ObjectWithKeys)) =>
       /\ Cardinality(Distinct(keys)) > max_items => Len(unique_keys) = max_items
       /\ Cardinality(Distinct(keys)) <= max_items =>
             Len(unique_keys) = Cardinality(Distinct(keys))
       /\ KeyListGood(unique_keys, keys)
       /\ structure_info = ObjectWithKeys \o Join(KeySeparator, unique_keys)

\* a JSON object with more than 5 distinct top-level keys, some name repeated
\* in its text, all matched: 5 keys are listed
C6_Witness ==
    /\ FastPathReturned
    /\ ManyTopLevelKeys(CurrentFile)
    /\ Cardinality(Distinct(keys)) > max_items
    /\ Len(keys) > Cardinality(Distinct(keys))
    /\ Len(unique_keys) = max_items

\* C7: when getting the size or reading the preview fails (a path that does
\* not exist fails at the first), preview_large_json returns file size 0 and
\* the text "Error reading file: " followed by the message of the error, and
\* nothing is raised; main writes that into the block of the file.
C7_ErrorReadingFile ==
    (tiers # <<>> /\ tiers[1].tier = 0) =>
       /\ pc \in {"write", "for", "done", "aborted"}
       /\ uncaught = NoError
       /\ tiers[1].raised \in IOErrors
       /\ preview_info.file_size = 0
       /\ HasPrefix(preview_info.preview, ErrorReadingFile)
       /\ preview_info.preview = ErrorReadingFile \o tiers[1].raised.msg
       /\ pc \in {"for", "done"} =>
             /\ out_f[file_path].file_size = 0
             /\ out_f[file_path].preview = ErrorReadingFile \o tiers[1].raised.msg

\* the probe of a path that does not exist has returned
C7_Witness ==
    /\ Returned
    /\ tiers = <<[tier |-> 0, raised |-> FileNotFoundError]>>
    /\ file_size = 0
    /\ preview_info.file_size = 0

\* the bracket-matching tier re-read the file without error
BracketMatchRead == Analyzed /\ Len(tiers) >= 2 /\ tiers[2].raised \notin IOErrors

\* the positions of s at which a '}' brings the brace-depth counter to zero
ZeroPoints(s) ==
    LET opens == {i \in 1..Len(s) : s[i] = "{"}
        closes == {i \in 1..Len(s) : s[i] = "}"}
    IN  {i \in closes : Cardinality({j \in opens : j < i}) = Cardinality({j \in closes : j <= i})}

\* the counter returns to zero, and the text up to the first such point is not JSON
ParseFails(s) ==
    ZeroPoints(s) # {} /\ ~JsonLoads(SubSeq(s, 1, Min(ZeroPoints(s)))).ok

\* C8 as stated: in the bracket-matching tier, the file re-read without
\* error, each of "the counter never returns to zero", "the substring does
\* not parse" and "the text does not start with '{'" yields the description
\* "structure detected, but details could not be parsed", and only a
\* substring that closes and parses yields a key list.
C8_AsStated ==
    (Returned /\ BracketMatchRead) =>
       IF \/ FirstSolid(CleanChunk(CurrentFile)) # "{"
          \/ ZeroPoints(CleanChunk(CurrentFile)) = {}
          \/ ParseFails(CleanChunk(CurrentFile))
       THEN structure_info = DetailsNotParsed
       ELSE structure_info = ObjectWithKeys \o Join(KeySeparator, keys)

\* C8, amended: the file re-read without error, "the counter never returns
\* to zero" and "the text does not start with '{'" yield the description
\* "structure detected, but details could not be parsed"; a substring that
\* does not parse makes the tier raise, and the description is then that of
\* the byte-sniff tier; only a substring that closes and parses yields a key
\* list.
C8_ParseFailureFallsThrough ==
    (Returned /\ BracketMatchRead) =>
       CASE FirstSolid(CleanChunk(CurrentFile)) # "{" \/ ZeroPoints(CleanChunk(CurrentFile)) = {} ->
               /\ Len(tiers) = 2
               /\ tiers[2].raised = NoError
               /\ structure_info = DetailsNotParsed
         [] ParseFails(CleanChunk(CurrentFile)) ->
               /\ Len(tiers) = 3
               /\ tiers[2].raised \in {JSONDecodeError, ValueError, RecursionError}
               /\ \/ structure_info \in {ObjectWithNaN, ArrayWithNaN, UnknownWithNaN}
                  \/ HasPrefix(structure_info, CouldNotAnalyze)
         [] OTHER ->
               /\ Len(tiers) = 2
               /\ tiers[2].raised = NoError
               /\ KeyListGood(keys, MemberNames(CurrentFile))
               /\ structure_info = ObjectWithKeys \o Join(KeySeparator, keys)

\* the braces of the text close, the text up to there is not JSON, and the
\* description is that of the byte-sniff tier
C8_Witness ==
    /\ Returned
    /\ BracketMatchRead
    /\ ParseFails(CleanChunk(CurrentFile))
    /\ structure_info = ObjectWithNaN

\* preview_large_json has read the preview of the current file
PreviewRead == pc \in {"tier1", "keys", "tier2", "tier3"} \/ (Returned /\ Analyzed)

\* C9, for the budgets that are not negative: the preview is as long as the
\* budget when the file is larger than the budget and as long as the file
\* otherwise, the file being measured by the size that is reported, which is
\* the full size of the file.
C9_AsStated ==
    (PreviewRead /\ size >= 0) =>
       /\ file_size = Len(CurrentFile)
       /\ Len(preview_data) = IF file_size > size THEN size ELSE file_size

\* a file larger than the budget was read and reported: the preview is as
\* long as the budget and the size reported is the full size of the file
C9_Witness ==
    /\ Returned /\ Analyzed
    /\ size >= 1
    /\ Len(CurrentFile) > size
    /\ Len(preview_info.preview) = size
    /\ preview_info.file_size = Len(CurrentFile)

\* all three tiers of the current probe raised
AllTiersRaised == Len(tiers) = 3 /\ tiers[3].raised # NoError

\* C10: when the byte-sniff tier fails too, analyze_json_structure returns
\* "Could not analyze structure: " followed by the message of the error of
\* the fast path; no other description of analyze_json_structure carries an
\* error message, and nothing is raised to its caller.
C10_TierOneErrorSurfaced ==
    /\ uncaught = NoError
    /\ (Returned /\ Analyzed /\ AllTiersRaised) =>
          /\ e = tiers[1].raised
          /\ structure_info = CouldNotAnalyze \o tiers[1].raised.msg
          /\ preview_info.structure = structure_info
    /\ (Returned /\ Analyzed /\ ~AllTiersRaised) =>
          \/ structure_info \in {ObjectDictionary, ArrayList, UnknownStructure, DetailsNotParsed,
                                 ObjectWithNaN, ArrayWithNaN, UnknownWithNaN}
          \/ /\ Len(tiers) = 1
             /\ structure_info = ObjectWithKeys \o Join(KeySeparator, unique_keys)
          \/ /\ Len(tiers) = 2
             /\ structure_info = ObjectWithKeys \o Join(KeySeparator, keys)

\* the three tiers failed with three different errors and the description
\* carries the message of the first
C10_Witness ==
    /\ Returned
    /\ Len(tiers) = 3
    /\ tiers[1].raised = FileNotFoundError
    /\ tiers[2].raised = JSONDecodeError
    /\ tiers[3].raised = OSError
    /\ structure_info = CouldNotAnalyze \o FileNotFoundError.msg

(***************************************************************************)
(* format_file_size                                                        *)
(***************************************************************************)
\* 1024^n
RECURSIVE PowerOf1024(_)
PowerOf1024(n) == IF n = 0 THEN 1 ELSE Kibi * PowerOf1024(n - 1)

\* x / 1024^n for an integer x and n in 0..3, in one division
Scaled(x, n) ==
    LET D == PowerOf1024(n)
    IN  Number(x.hi \div D,
               ((x.hi % D) * (Radix \div D)) + (x.lo \div D),
               (x.lo % D) * (Radix \div D))

\* x / 1024^n < 1024 for an integer x and n in 0..3
ScaledBelow1024(x, n) ==
    IF n = 3 THEN x.hi < Kibi
    ELSE x.hi = 0 /\ x.lo < PowerOf1024(n + 1)

\* the number of unit steps taken: the first unit whose scaled size is below
\* 1024, GB (3 steps) if there is none
UnitSteps(x) == Min({n \in 0..3 : n = 3 \/ ScaledBelow1024(x, n)})

\* C11: for every non-negative integer size, format_file_size returns a string,
\* never None; its unit is the first of B, KB, MB, GB for which the size
\* divided by 1024 once per preceding unit is below 1024, GB when there is
\* none, even if the value is still 1024 or more; the number shown is the
\* size divided by 1024 once per unit step taken, with two decimals.
C11_UnitAndNumber ==
    pc = "formatted" =>
        /\ formatted # None
        /\ formatted = TwoDecimals(Scaled(size_in_bytes, UnitSteps(size_in_bytes)))
                          \o <<" ">> \o Units[UnitSteps(size_in_bytes) + 1]

\* 2^40 bytes: no unit brings the value below 1024, and GB is used
C11_Witness ==
    /\ pc = "formatted"
    /\ size_in_bytes = Number(Kibi, 0, 0)
    /\ ~ScaledBelow1024(size_in_bytes, 3)
    /\ formatted = <<"1", "0", "2", "4", ".", "0", "0", " ", "G", "B">>

====
